---- MODULE Spec2Model ----
(***************************************************************************)
(* pkgsign: verification of a package directory against its signature.json.*)
(*                                                                         *)
(* Strings that the code takes apart or puts together (paths, reasons) are *)
(* sequences of tokens, so that replace(/\\/g, '/') and '+' are modelled   *)
(* by what they do.  A JavaScript value that may be undefined is the       *)
(* string undefined; a missing file has the content NoFile.                *)
(***************************************************************************)
EXTENDS Integers, Sequences, FiniteSets, TLC

VARIABLES
    \* ---- one call of SignatureFilesEntry.verify (specification SpecFiles)
    fFiles,        \* this.files: the (path, sha512) pairs of the entry
    fContext,      \* the VerificationContext handed to verify
    fDisk,         \* the package directory the context names: path -> content
    fResult,       \* what the call produced ("pending" before it ran)
    fString,       \* what toDeterministicString produced (NotComputed before)
    \* ---- the package, the trust store and one call of ModuleVerifier.verify
    signatureJson, \* <dir>/signature.json: missing, unparsable, or a document
    disk,          \* the other files of <dir>: path -> content
    home,          \* process.env.HOME / USERPROFILE
    trustDir,      \* state of <home>/.pkgsign-trust-store
    trustFiles,    \* package name -> content of <name>.trust
    pc,            \* position of the verify call
    expectedPackageName,
    entryIndex,    \* index of the entry whose content check runs next
    identity,      \* the identity extracted by the call
    verifierCall,  \* which identity verifier was called, and what it answered
    log,           \* the steps the call has performed, in order
    result,        \* the verdict (or the exception) of the call
    \* ---- trust-store calls of concurrent processes (specification SpecTrust)
    proc,          \* process -> its current operation and position
    opsStarted,    \* number of operations started so far
    initialFiles,  \* the record files as they were before the first operation
    \* ---- a session of verify calls and approvals (specification SpecSession)
    calls,         \* the calls that have ended before the current one, in order
    \* ---- json-normalize: normalizeSync and normalize (specification SpecNormalize)
    nInput,        \* the value handed to normalizeSync and to normalize
    nSync,         \* what normalizeSync returned (NotComputed before the call)
    nStarted,      \* whether normalize has been called
    nQueue,        \* the process.nextTick queue: closures not yet run
    nFrames,       \* the handleObject activations: values, complete, their done
    nDelivered,    \* the values the completion callback was called with
    \* ---- the verify command on a directory of packages (specification SpecCommand)
    cPackages,     \* the packages under the directory, as the walker finds them
    cTarball,      \* whether the path names a .tgz file
    cPc,           \* position of execute / verifyDirectory
    cResults,      \* results: path and result of each package, in key order
    cFirst,        \* the results of the first hierarchy verification (history)
    cPrompts,      \* prompts: the names (paths) of the trust prompts
    cTrustResults, \* trustResults: the operator's answer to each prompt
    cLoop,         \* position in trustResults of the addTrusted call awaited
    cDidModify,    \* didModify
    cVerifications,\* number of hierarchy verifications run
    cAdds,         \* the addTrusted calls made, with their arguments (history)
    cExit          \* the exit code execute returned (NoExitCode before)

fvars == <<fFiles, fContext, fDisk, fResult, fString>>
avars == <<calls>>
nvars == <<nInput, nSync, nStarted, nQueue, nFrames, nDelivered>>
cvars == <<cPackages, cTarball, cPc, cResults, cFirst, cPrompts, cTrustResults,
           cLoop, cDidModify, cVerifications, cAdds, cExit>>
mvars == <<signatureJson, disk, pc, expectedPackageName, entryIndex, identity,
           verifierCall, log, result>>
svars == <<home, trustDir, trustFiles>>
tvars == <<proc, opsStarted, initialFiles>>
vars  == <<fvars, mvars, svars, tvars, avars, nvars, cvars>>

-----------------------------------------------------------------------------
(* Bounds of the model *)

\* most (path, sha512) pairs in one files entry
MaxFiles == 3
\* most entries in one signature document
MaxEntries == 3
\* most trust-store operations started in one run of SpecTrust
MaxOps == 2
\* most calls that have ended before the current one in a session
MaxCalls == 2
\* most nodes (literals, arrays, objects) in a value handed to normalize
MaxNodes == 4
\* most packages under the directory handed to the verify command
MaxPackages == 2

-----------------------------------------------------------------------------
(* Values *)

undefined == "undefined"
NoFile    == "<no file>"

\* Paths are token sequences; "/" and "\\" are the separator tokens.
PathA         == <<"a.txt">>
PathB         == <<"b.txt">>
PathPackage   == <<"package.json">>
PathSignature == <<"signature.json">>
\* a.txt in the folder d, and the path that has a backslash for the separator
PathSub       == <<"d", "/", "a.txt">>
PathBack      == <<"d", "\\", "a.txt">>
\* a path (any JSON string of signature.json) that holds two line feeds
PathLineFeeds == <<"a.txt", "\n", "sha512(hi)", "\n", "b.txt">>

\* sha512OfFile is collision free on the contents of the model.
Sha512(content) == "sha512(" \o content \o ")"

\* replace(/\\/g, '/')
NormalisePath(p) == [i \in DOMAIN p |-> IF p[i] = "\\" THEN "/" ELSE p[i]]

Range(s) == {s[i] : i \in DOMAIN s}

SeqsUpTo(S, n) == UNION {[1..k -> S] : k \in 0..n}

-----------------------------------------------------------------------------
(* ModuleVerificationResult, and the outcomes that are not a verdict *)

\* SignatureIdentity: a field that is not populated is undefined.
Identity(keybaseUser, pgpPublicKeyUrl) ==
    [keybaseUser |-> keybaseUser, pgpPublicKeyUrl |-> pgpPublicKeyUrl]

\* No identity object at all (null, or a result without untrustedIdentity).
NoIdentity == Identity("<none>", "<none>")

Verdict(status, reason, packageName, untrustedIdentity) ==
    [status |-> status, reason |-> reason, packageName |-> packageName,
     untrustedIdentity |-> untrustedIdentity]

\* An entry's content check found nothing wrong (it returned null).
NoFailure == Verdict("null", <<>>, "", NoIdentity)

\* The call did not return: it raised (its promise was rejected with) what.
Threw(what) == Verdict("exception", <<what>>, "", NoIdentity)

\* No result yet.
Pending == Verdict("pending", <<>>, "", NoIdentity)

Compromised(reason, packageName) ==
    Verdict("Compromised", reason, packageName, NoIdentity)

Unsigned(reason, packageName) ==
    Verdict("Unsigned", reason, packageName, NoIdentity)

Untrusted(untrustedIdentity, packageName) ==
    Verdict("Untrusted", <<>>, packageName, untrustedIdentity)

Trusted(packageName) == Verdict("Trusted", <<>>, packageName, NoIdentity)

-----------------------------------------------------------------------------
(* fsPromise.sha512OfFile: the hash of the file at path.join(dir, path), or *)
(* an IO error when no such file can be read.                              *)

IOError == "IOError"

Sha512OfFile(dsk, path) ==
    IF path \in DOMAIN dsk /\ dsk[path] # NoFile
    THEN Sha512(dsk[path])
    ELSE IOError

-----------------------------------------------------------------------------
(* SignatureFilesEntry (signature/signatureFilesEntry.ts)                  *)

FilesTag       == "files/v1alpha1"
PackageJsonTag == "packageJson/v1alpha1"
IdentityTag    == "identity/v1alpha1"

\* context.signatureEntries: defined = FALSE is the JavaScript undefined of a
\* context object that has no such property.
NoSignatureEntries == [defined |-> FALSE, tags |-> <<>>]
SignatureEntries(tags) == [defined |-> TRUE, tags |-> tags]

\* context.signatureEntries.some(x => x.entry === "packageJson/v1alpha1")
SkipPackageJsonExactVerification(context) ==
    \E i \in DOMAIN context.signatureEntries.tags :
        context.signatureEntries.tags[i] = PackageJsonTag

\* The inner loop over this.files: every match overwrites found and
\* expectedHash, so the last pair with the path decides.
Matching(files, normalisedPath) ==
    {i \in DOMAIN files : files[i].path = normalisedPath}

ExpectedHash(files, normalisedPath) ==
    LET m == Matching(files, normalisedPath)
    IN  files[CHOOSE i \in m : \A j \in m : j <= i].sha512

NotInSignature(p) == p \o <<" exists in the package, but was not in the signature">>
MismatchedHash(p) == p \o <<" does not have content that was signed for (mismatched hash)">>
MissingInPackage(p) == p \o <<" is expected by the signature, but is missing in the package">>

\* Whether the first loop leaves the on-disk path alone.
SkippedOnDisk(normalisedPath, context) ==
    \/ normalisedPath = PathSignature
    \/ normalisedPath = PathPackage /\ SkipPackageJsonExactVerification(context)

\* First loop: each relative file on disk, from the i-th on.
RECURSIVE CheckOnDisk(_, _, _, _)
CheckOnDisk(files, context, dsk, i) ==
    IF i > Len(context.relFilesOnDisk) THEN NoFailure
    ELSE LET normalisedPath == NormalisePath(context.relFilesOnDisk[i])
         IN  IF SkippedOnDisk(normalisedPath, context)
             THEN CheckOnDisk(files, context, dsk, i + 1)
             ELSE IF Matching(files, normalisedPath) = {}
             THEN Compromised(NotInSignature(normalisedPath),
                              context.expectedPackageName)
             ELSE LET hash == Sha512OfFile(dsk, normalisedPath)
                  IN  IF hash = IOError THEN Threw(IOError)
                      ELSE IF hash # ExpectedHash(files, normalisedPath)
                      THEN Compromised(MismatchedHash(normalisedPath),
                                       context.expectedPackageName)
                      ELSE CheckOnDisk(files, context, dsk, i + 1)

\* Whether the second loop leaves the listed path alone.
SkippedListed(path) == path = PathSignature

\* Second loop: each pair of this.files, from the i-th on.
RECURSIVE CheckListed(_, _, _)
CheckListed(files, context, i) ==
    IF i > Len(files) THEN NoFailure
    ELSE IF SkippedListed(files[i].path)
    THEN CheckListed(files, context, i + 1)
    ELSE IF \E k \in DOMAIN context.relFilesOnDisk :
                NormalisePath(context.relFilesOnDisk[k]) = files[i].path
    THEN CheckListed(files, context, i + 1)
    ELSE Compromised(MissingInPackage(files[i].path), context.expectedPackageName)

\* SignatureFilesEntry.verify(context).  Reading .some of an undefined
\* context.signatureEntries is a TypeError, raised before either loop.
FilesEntryVerify(files, context, dsk) ==
    IF ~context.signatureEntries.defined THEN Threw("TypeError")
    ELSE LET onDisk == CheckOnDisk(files, context, dsk, 1)
         IN  IF onDisk # NoFailure THEN onDisk
             ELSE CheckListed(files, context, 1)

-----------------------------------------------------------------------------
(* JSON text of a trust record.  A text is a sequence of tokens; the file  *)
(* <name>.trust holds a text, or <<NoFile>> when it does not exist.        *)

Alice    == Identity("alice", undefined)
Bob      == Identity("bob", undefined)
KeyUrl   == Identity(undefined, "https://k/u.asc")
AliceUrl == Identity("alice", "https://k/u.asc")
Nobody   == Identity(undefined, undefined)

\* The identities that trust-store calls are made with.
Identities == {Alice, Bob, AliceUrl, Nobody}

NoRecord      == <<NoFile>>
EmptyText     == <<>>
GarbageText   == <<"not json">>

\* JSON.stringify(identity): a property whose value is undefined is left out.
JSONStringify(ident) ==
    LET k == IF ident.keybaseUser = undefined THEN <<>>
             ELSE <<"keybaseUser", ":", ident.keybaseUser>>
        u == IF ident.pgpPublicKeyUrl = undefined THEN <<>>
             ELSE <<"pgpPublicKeyUrl", ":", ident.pgpPublicKeyUrl>>
        comma == IF k # <<>> /\ u # <<>> THEN <<",">> ELSE <<>>
    IN  <<"{">> \o k \o comma \o u \o <<"}">>

\* Whether JSON.parse(text) returns an object (it throws otherwise): the
\* members key : value are separated by commas and enclosed in braces.
JSONParses(text) ==
    /\ Len(text) >= 2
    /\ text[1] = "{"
    /\ text[Len(text)] = "}"
    /\ \/ Len(text) = 2
       \/ /\ (Len(text) - 1) % 4 = 0
          /\ \A i \in 2..(Len(text) - 1) :
                CASE i % 4 = 2 -> text[i] \notin {"{", "}", ":", ","}
                  [] i % 4 = 3 -> text[i] = ":"
                  [] i % 4 = 0 -> text[i] \notin {"{", "}", ":", ","}
                  [] i % 4 = 1 -> text[i] = ","

\* JSON.parse(text).key: the value of the last member named key, undefined
\* when the object has no such member.
Property(text, key) ==
    LET at == {i \in 2..(Len(text) - 1) : i % 4 = 2 /\ text[i] = key}
    IN  IF at = {} THEN undefined
        ELSE text[(CHOOSE i \in at : \A j \in at : j <= i) + 2]

\* The comparison of isTrusted on the keybaseUser field alone.
SameKeybaseUser(trustInfo, ident) ==
    Property(trustInfo, "keybaseUser") = ident.keybaseUser

\* The comparison of isTrusted: strict equality on both fields.
SameIdentity(trustInfo, ident) ==
    /\ Property(trustInfo, "keybaseUser") = ident.keybaseUser
    /\ Property(trustInfo, "pgpPublicKeyUrl") = ident.pgpPublicKeyUrl

\* The try block of isTrusted on the content read from the record file:
\* a missing file or a parse error is caught and gives false.
TrustAnswer(content, ident) ==
    IF content = NoRecord \/ ~JSONParses(content) THEN FALSE
    ELSE SameIdentity(content, ident)

-----------------------------------------------------------------------------
(* TrustStore.createTrustStoreIfNecessary                                  *)

HomeSet == "/home/u"

\* path.join(undefined, '.pkgsign-trust-store') raises a TypeError.
JoinRaises(trustStoreBaseFolder) == trustStoreBaseFolder = undefined

\* fs.existsSync(trustStoreFolder)
ExistsSync(dir) == dir = "exists"

\* fs.mkdirSync(trustStoreFolder) raises when the folder exists (EEXIST) or
\* cannot be created ("blocked": EACCES, ENOENT, ENOTDIR).
MkdirRaises(dir) == dir # "missing"

\* createTrustStoreIfNecessary run without interruption: whether it raises,
\* and the state of the folder afterwards.
CreateRaises(hm, dir) ==
    JoinRaises(hm) \/ (~ExistsSync(dir) /\ MkdirRaises(dir))

DirAfterCreate(hm, dir) ==
    IF ~JoinRaises(hm) /\ ~ExistsSync(dir) /\ ~MkdirRaises(dir)
    THEN "exists" ELSE dir

-----------------------------------------------------------------------------
(* Signature document: entries in document order, and the signature.       *)

Entry(tag, files, ident, name) ==
    [entry |-> tag, files |-> files, identity |-> ident, name |-> name]

FilesEntry(files)      == Entry(FilesTag, files, NoIdentity, "")
IdentityEntry(ident)   == Entry(IdentityTag, <<>>, ident, "")
PackageJsonEntry(name) == Entry(PackageJsonTag, <<>>, NoIdentity, name)

FileEntry(path, sha512) == [path |-> path, sha512 |-> sha512]

\* Contents of package.json, and what JSON.parse makes of them.
PkgP       == "{\"name\":\"p\"}"
PkgQ       == "{\"name\":\"q\"}"
PkgGarbage == "not json"
PkgScoped  == "{\"name\":\"@s/p\"}"
PkgNoName  == "{}"
PkgArrayP  == "{\"name\":[\"p\"]}"
PkgNull    == "null"

ManifestParses(content) ==
    content \in {PkgP, PkgQ, PkgScoped, PkgNoName, PkgArrayP, PkgNull}

\* The value of a name field that is the array ["p"], not a string.
ArrayOfP == "[\"p\"]"

\* packageInfo == null
ManifestIsNull(content) == content = PkgNull

\* packageInfo.name
ManifestName(content) ==
    CASE content = PkgP -> "p"
      [] content = PkgQ -> "q"
      [] content = PkgScoped -> "@s/p"
      [] content = PkgArrayP -> ArrayOfP
      [] OTHER -> undefined

\* What the loose comparison of a value with a string compares: a string as
\* it is, an array as its elements joined by commas.
LooseString(value) == IF value = ArrayOfP THEN "p" ELSE value

\* SignatureFilesEntry.toDeterministicString
RECURSIVE FilesToDeterministicString(_)
FilesToDeterministicString(files) ==
    IF files = <<>> THEN <<>>
    ELSE Head(files).path \o <<"\n", Head(files).sha512, "\n">>
         \o FilesToDeterministicString(Tail(files))

\* The identity entry: keybase field before PGP-URL field, absent fields
\* leave no line.
IdentityToDeterministicString(ident) ==
    (IF ident.keybaseUser = undefined THEN <<>>
     ELSE <<"keybaseUser", "=", ident.keybaseUser, "\n">>)
    \o (IF ident.pgpPublicKeyUrl = undefined THEN <<>>
        ELSE <<"pgpPublicKeyUrl", "=", ident.pgpPublicKeyUrl, "\n">>)

\* The package-manifest entry: the signed manifest fields in a fixed order.
PackageJsonToDeterministicString(name) == <<"name", "=", name, "\n">>

EntryToDeterministicString(e) ==
    CASE e.entry = FilesTag       -> FilesToDeterministicString(e.files)
      [] e.entry = IdentityTag    -> IdentityToDeterministicString(e.identity)
      [] e.entry = PackageJsonTag -> PackageJsonToDeterministicString(e.name)

\* createDeterministicString(signature): the entries' strings in document order.
RECURSIVE CreateDeterministicString(_)
CreateDeterministicString(entries) ==
    IF entries = <<>> THEN <<>>
    ELSE EntryToDeterministicString(Head(entries))
         \o CreateDeterministicString(Tail(entries))

\* The package-manifest entry's content check: the on-disk manifest parses
\* and agrees with the entry on the signed fields.
PackageJsonEntryVerify(name, context, dsk) ==
    IF /\ PathPackage \in DOMAIN dsk
       /\ ManifestParses(dsk[PathPackage])
       /\ ManifestName(dsk[PathPackage]) = name
    THEN NoFailure
    ELSE Compromised(<<"package.json does not match the signed package manifest">>,
                     context.expectedPackageName)

\* entry.verify(context)
EntryVerify(e, context, dsk) ==
    CASE e.entry = FilesTag       -> FilesEntryVerify(e.files, context, dsk)
      [] e.entry = IdentityTag    -> NoFailure
      [] e.entry = PackageJsonTag -> PackageJsonEntryVerify(e.name, context, dsk)

\* entry.getIdentity()
EntryGetIdentity(e) ==
    IF e.entry = IdentityTag THEN e.identity ELSE NoIdentity

\* The first entry in document order that provides an identity, from the
\* i-th on; NoIdentity when none does.
RECURSIVE FindIdentity(_, _)
FindIdentity(entries, i) ==
    IF i > Len(entries) THEN NoIdentity
    ELSE IF EntryGetIdentity(entries[i]) # NoIdentity
    THEN EntryGetIdentity(entries[i])
    ELSE FindIdentity(entries, i + 1)

\* signature.json as the parser sees it.
SignatureMissing    == [state |-> "missing", entries |-> <<>>]
SignatureUnparsable == [state |-> "unparsable", entries |-> <<>>]
SignatureDocument(entries) == [state |-> "parsed", entries |-> entries]

\* SignatureParser.parse on well-formed JSON: an entry whose type tag is not
\* a known one is a hard failure of the parse (it throws).
KnownTags == {FilesTag, IdentityTag, PackageJsonTag}

UnknownEntry == Entry("mystery/v1", <<>>, NoIdentity, "")

ParserThrows(entries) == \E i \in DOMAIN entries : entries[i].entry \notin KnownTags

SignatureParse(entries) ==
    IF ParserThrows(entries) THEN [state |-> "unknownTag", entries |-> entries]
    ELSE SignatureDocument(entries)

-----------------------------------------------------------------------------
(* ModuleVerifier.verify(dir, relFilesOnDisk, expectedPackageName), one    *)
(* action per step between two awaits.                                     *)

Dir == "/p"

\* The caller's list: the files of the package directory, signature.json
\* included when it exists.
Present(p) ==
    IF p = PathSignature THEN signatureJson.state # "missing"
    ELSE p \in DOMAIN disk /\ disk[p] # NoFile

RelFilesOnDisk == SelectSeq(<<PathA, PathPackage, PathSignature>>, Present)

\* let context = { dir, relFilesOnDisk, expectedPackageName }: the object
\* has no signatureEntries property.
ContextSignatureEntries(entries) == NoSignatureEntries

VerificationContext(entries, rel, expected) ==
    [dir |-> Dir, relFilesOnDisk |-> rel, expectedPackageName |-> expected,
     signatureEntries |-> ContextSignatureEntries(entries)]

Step(name, index, ok) == [step |-> name, index |-> index, ok |-> ok]

NoVerifierCall == [verifier |-> "none", identity |-> NoIdentity,
                   message |-> <<>>, accepted |-> FALSE]

\* The call ends with outcome r.
Finish(r) == /\ result' = r
             /\ pc' = "done"

\* verify is called with one of the names as the expected package name.
StartWith(names) ==
    /\ pc = "idle"
    /\ \E expected \in names : expectedPackageName' = expected
    /\ pc' = "readSignature"
    /\ UNCHANGED <<signatureJson, disk, entryIndex, identity, verifierCall,
                   log, result, svars, fvars, tvars, avars, nvars, cvars>>

Start == StartWith({"p", "q"})

\* A failed load of signature.json reported as Compromised.
SignatureLoadFailureCompromised(expected) ==
    Compromised(<<"Missing or unparsable signature.json">>, expected)

\* What a failed load of signature.json returns.
SignatureLoadFailure(expected) ==
    Unsigned(<<"Missing or unparsable signature.json">>, expected)

\* Load the signature document.
ReadSignature ==
    /\ pc = "readSignature"
    /\ log' = Append(log, Step("readSignature", 0, signatureJson.state = "parsed"))
    /\ IF signatureJson.state # "parsed"
       THEN Finish(SignatureLoadFailure(expectedPackageName))
       ELSE pc' = "entries" /\ UNCHANGED result
    /\ UNCHANGED <<signatureJson, disk, expectedPackageName, entryIndex,
                   identity, verifierCall, svars, fvars, tvars, avars, nvars, cvars>>

\* Verify each of the entries: one entry's content check.
CheckEntry ==
    /\ pc = "entries"
    /\ entryIndex <= Len(signatureJson.entries)
    /\ LET context == VerificationContext(signatureJson.entries, RelFilesOnDisk,
                                          expectedPackageName)
           entryResult == EntryVerify(signatureJson.entries[entryIndex],
                                      context, disk)
       IN  /\ log' = Append(log, Step("entry", entryIndex, entryResult = NoFailure))
           /\ IF entryResult # NoFailure
              THEN Finish(entryResult) /\ UNCHANGED entryIndex
              ELSE /\ entryIndex' = entryIndex + 1
                   /\ UNCHANGED <<pc, result>>
    /\ UNCHANGED <<signatureJson, disk, expectedPackageName, identity,
                   verifierCall, svars, fvars, tvars, avars, nvars, cvars>>

\* Find an entry that provides an identity.
ExtractIdentity ==
    /\ pc = "entries"
    /\ entryIndex > Len(signatureJson.entries)
    /\ identity' = FindIdentity(signatureJson.entries, 1)
    /\ log' = Append(log, Step("identity", 0, identity' # NoIdentity))
    /\ IF identity' = NoIdentity
       THEN Finish(Compromised(<<"No identity information in signature.json">>,
                               expectedPackageName))
       ELSE pc' = "selectVerifier" /\ UNCHANGED result
    /\ UNCHANGED <<signatureJson, disk, expectedPackageName, entryIndex,
                   verifierCall, svars, fvars, tvars, avars, nvars, cvars>>

\* The selection with the PGP key URL looked at before the Keybase user.
VerifierForUrlFirst(ident) ==
    IF ident.pgpPublicKeyUrl # undefined THEN "Pgp"
    ELSE IF ident.keybaseUser # undefined THEN "Keybase"
    ELSE "none"

\* The verifier for the identity; "none" when neither field is populated.
VerifierFor(ident) ==
    IF ident.keybaseUser # undefined THEN "Keybase"
    ELSE IF ident.pgpPublicKeyUrl # undefined THEN "Pgp"
    ELSE "none"

SelectVerifier ==
    /\ pc = "selectVerifier"
    /\ log' = Append(log, Step("selectVerifier", 0, VerifierFor(identity) # "none"))
    /\ IF VerifierFor(identity) = "none"
       THEN Finish(Compromised(<<"Unknown identity in signature.json">>,
                               expectedPackageName))
       ELSE pc' = "verifySignature" /\ UNCHANGED result
    /\ UNCHANGED <<signatureJson, disk, expectedPackageName, entryIndex,
                   identity, verifierCall, svars, fvars, tvars, avars, nvars, cvars>>

\* VerifySignature without the return on a rejected signature.
VerifySignatureNoReturn ==
    /\ pc = "verifySignature"
    /\ \E accepted \in BOOLEAN :
        /\ verifierCall' =
              [verifier |-> VerifierFor(identity), identity |-> identity,
               message |-> CreateDeterministicString(signatureJson.entries),
               accepted |-> accepted]
        /\ log' = Append(log, Step("verifySignature", 0, accepted))
    /\ pc' = "readPackageJson"
    /\ UNCHANGED <<signatureJson, disk, expectedPackageName, entryIndex,
                   identity, result, svars, fvars, tvars, avars, nvars, cvars>>

\* Request the verifier verify the signature.  Its answer (key fetch and
\* cryptography) is the environment's.
VerifySignature ==
    /\ pc = "verifySignature"
    /\ \E accepted \in BOOLEAN :
        /\ verifierCall' =
              [verifier |-> VerifierFor(identity), identity |-> identity,
               message |-> CreateDeterministicString(signatureJson.entries),
               accepted |-> accepted]
        /\ log' = Append(log, Step("verifySignature", 0, accepted))
        /\ IF ~accepted
           THEN Finish(Compromised(<<"The signature does not match">>,
                                   expectedPackageName))
           ELSE pc' = "readPackageJson" /\ UNCHANGED result
    /\ UNCHANGED <<signatureJson, disk, expectedPackageName, entryIndex,
                   identity, svars, fvars, tvars, avars, nvars, cvars>>

\* JSON.parse(await readFilePromise(path.join(dir, 'package.json')))
ReadPackageJson ==
    /\ pc = "readPackageJson"
    /\ LET parsed == disk[PathPackage] # NoFile /\ ManifestParses(disk[PathPackage])
       IN  /\ log' = Append(log, Step("readPackageJson", 0, parsed))
           /\ IF ~parsed
              THEN Finish(Compromised(<<"Missing or unparsable package.json">>,
                                      expectedPackageName))
              ELSE pc' = "checkName" /\ UNCHANGED result
    /\ UNCHANGED <<signatureJson, disk, expectedPackageName, entryIndex,
                   identity, verifierCall, svars, fvars, tvars, avars, nvars, cvars>>

\* packageInfo.name || ''
NameOrEmpty(content) ==
    IF ManifestName(content) = undefined THEN "" ELSE ManifestName(content)

\* packageInfo == null || (packageInfo.name || '') != expectedPackageName
NameMismatch(content, expected) ==
    ManifestIsNull(content) \/ LooseString(NameOrEmpty(content)) # expected

CheckName ==
    /\ pc = "checkName"
    /\ LET mismatch == NameMismatch(disk[PathPackage], expectedPackageName)
       IN  /\ log' = Append(log, Step("checkName", 0, ~mismatch))
           /\ IF mismatch
              THEN Finish(Compromised(
                     <<"Provided package name in package.json did not match expected package name">>,
                     expectedPackageName))
              ELSE pc' = "trustStore" /\ UNCHANGED result
    /\ UNCHANGED <<signatureJson, disk, expectedPackageName, entryIndex,
                   identity, verifierCall, svars, fvars, tvars, avars, nvars, cvars>>

\* What verify returns on the answer of isTrusted.
TrustVerdict(trusted, ident, expected) ==
    IF trusted THEN Trusted(expected) ELSE Untrusted(ident, expected)

\* this.trustStore.isTrusted(identity, expectedPackageName): no other process
\* touches the store during the call.
ConsultTrustStore ==
    /\ pc = "trustStore"
    /\ log' = Append(log, Step("trustStore", 0, ~CreateRaises(home, trustDir)))
    /\ trustDir' = DirAfterCreate(home, trustDir)
    /\ IF CreateRaises(home, trustDir)
       THEN Finish(Threw(IF JoinRaises(home) THEN "TypeError" ELSE IOError))
       ELSE Finish(TrustVerdict(
                     TrustAnswer(trustFiles[expectedPackageName], identity),
                     identity, expectedPackageName))
    /\ UNCHANGED <<signatureJson, disk, expectedPackageName, entryIndex,
                   identity, verifierCall, home, trustFiles, fvars, tvars, avars, nvars, cvars>>

-----------------------------------------------------------------------------
(* json-normalize (lib/thirdparty/jsonNormalize.ts).  A JavaScript value is *)
(* a node: a literal, an array, or a plain object whose items are kept in  *)
(* key insertion order (Object.keys).  A string is the sequence of its     *)
(* characters, so that sort() and join() are modelled by what they do.     *)

Node(kind, lit, items) == [kind |-> kind, lit |-> lit, items |-> items]
Item(key, value) == [key |-> key, value |-> value]

NumberValue(digit) == Node("number", digit, <<>>)
NullValue          == Node("null", "", <<>>)
UndefinedValue     == Node("undefined", "", <<>>)
FunctionValue      == Node("function", "", <<>>)
ArrayValue(values) ==
    Node("array", "", [i \in DOMAIN values |-> Item(<<>>, values[i])])
ObjectValue(items) == Node("object", "", items)
\* no value: normalize has not been given one
NoValue            == Node("none", "", <<>>)

\* What a variable holds that holds no string: undefined, null, and an
\* array slot that was never assigned.
UndefinedResult == <<"<undefined>">>
NullSlot        == <<"<null>">>
Hole            == <<"<hole>">>

NullText == <<"n", "u", "l", "l">>

\* The UTF-16 code unit of a character.
CharCode(c) ==
    CASE c = "\"" -> 34  [] c = ","  -> 44  [] c = "1"  -> 49  [] c = "2" -> 50
      [] c = ":"  -> 58  [] c = "["  -> 91  [] c = "]"  -> 93  [] c = "a" -> 97
      [] c = "b"  -> 98  [] c = "l"  -> 108 [] c = "n"  -> 110 [] c = "u" -> 117
      [] c = "{"  -> 123 [] c = "}"  -> 125

\* x < y for strings: by code units, a proper prefix first.
RECURSIVE StringLess(_, _)
StringLess(x, y) ==
    IF x = <<>> THEN y # <<>>
    ELSE IF y = <<>> THEN FALSE
    ELSE IF Head(x) = Head(y) THEN StringLess(Tail(x), Tail(y))
    ELSE CharCode(Head(x)) < CharCode(Head(y))

\* Array.prototype.sort() without a comparator: elements are compared by
\* their string (null as "null"); undefined elements and holes go last.
SortBefore(x, y) ==
    /\ x # Hole
    /\ \/ y = Hole
       \/ StringLess(IF x = NullSlot THEN NullText ELSE x,
                     IF y = NullSlot THEN NullText ELSE y)

RECURSIVE InsertSorted(_, _)
InsertSorted(sorted, x) ==
    IF sorted = <<>> THEN <<x>>
    ELSE IF SortBefore(x, Head(sorted)) THEN <<x>> \o sorted
    ELSE <<Head(sorted)>> \o InsertSorted(Tail(sorted), x)

\* The elements left in the order they were inserted in.
NoSort(values) == values

\* values.sort()
RECURSIVE SortSlots(_)
SortSlots(values) ==
    IF values = <<>> THEN <<>>
    ELSE InsertSorted(SortSlots(Tail(values)), Head(values))

\* .filter(Boolean): holes are skipped, null and the empty string are falsy.
FilterBoolean(values) ==
    LET truthy(v) == v # Hole /\ v # NullSlot /\ v # <<>>
    IN  SelectSeq(values, truthy)

\* .join(","): a null, undefined or missing element gives the empty string.
RECURSIVE Join(_)
Join(values) ==
    IF values = <<>> THEN <<>>
    ELSE (IF Head(values) \in {Hole, NullSlot} THEN <<>> ELSE Head(values))
         \o (IF Len(values) > 1 THEN <<",">> \o Join(Tail(values)) ELSE <<>>)

\* handleObject.onComplete: the string handed to done.
OnComplete(isArray, values) ==
    IF isArray
    THEN <<"[">>
         \o Join([i \in DOMAIN values |->
                    IF values[i] = NullSlot THEN NullText ELSE values[i]])
         \o <<"]">>
    ELSE <<"{">> \o Join(FilterBoolean(SortSlots(values))) \o <<"}">>

\* handleReplacer without a replacer: a function becomes undefined.
HandleReplacer(val) ==
    IF val.kind = "function" THEN UndefinedValue ELSE val

\* !value || typeof value !== "object"
IsLiteral(value) == value.kind \notin {"array", "object"}

\* handleLiteral: JSON.stringify(value), which is undefined for undefined.
HandleLiteral(value) ==
    CASE value.kind = "number" -> <<value.lit>>
      [] value.kind = "null"   -> NullText
      [] OTHER                 -> UndefinedResult

\* The element mapArray hands to recurse.
ArrayElement(value) ==
    IF value.kind = "undefined" THEN NullValue ELSE value

\* What the callback of mapArray hands to values[index].
ArraySlot(val) == IF val = UndefinedResult THEN NullSlot ELSE val

\* What the callback of mapObject hands to values[index]: "key":val
ObjectSlot(key, val) ==
    IF val = UndefinedResult THEN NullSlot
    ELSE <<"\"">> \o key \o <<"\"", ":">> \o val

\* serializeSync(obj, undefined, done, key): the value done is called with.
\* Each recursive call calls its done before it returns, so complete
\* reaches keys.length, and onComplete runs, at the last key.
RECURSIVE SerializeSync(_)
SerializeSync(obj) ==
    LET value == HandleReplacer(obj)
    IN  IF IsLiteral(value) THEN HandleLiteral(value)
        ELSE LET isArray == value.kind = "array"
                 items   == value.items
                 values  ==
                   [i \in DOMAIN items |->
                      IF isArray
                      THEN ArraySlot(SerializeSync(ArrayElement(items[i].value)))
                      ELSE IF items[i].value.kind = "undefined" THEN Hole
                      ELSE ObjectSlot(items[i].key, SerializeSync(items[i].value))]
             IN  OnComplete(isArray, values)

\* normalizeSync(obj): results, as the done of serializeSync set it.
NormalizeSync(obj) == SerializeSync(obj)

\* The values normalize is given: those of at most MaxNodes nodes.
Literals == {NumberValue("1"), NullValue, UndefinedValue, FunctionValue}
Keys     == {<<"b">>, <<"a", "b">>}

RECURSIVE NodeCount(_)
NodeCount(value) ==
    LET RECURSIVE Sum(_)
        Sum(items) == IF items = <<>> THEN 0
                      ELSE NodeCount(Head(items).value) + Sum(Tail(items))
    IN  1 + Sum(value.items)

\* The sequences of k different keys.
KeySeqs(k) == {ks \in [1..k -> Keys] : \A i, j \in 1..k : ks[i] = ks[j] => i = j}

RECURSIVE ValuesUpTo(_)
RECURSIVE Forests(_, _)
\* The sequences of k values with n nodes at most in all.
Forests(k, n) ==
    IF k = 0 THEN {<<>>}
    ELSE UNION {{<<t>> \o rest : rest \in Forests(k - 1, n - NodeCount(t))} :
                  t \in ValuesUpTo(n - (k - 1))}

ValuesUpTo(n) ==
    IF n < 1 THEN {}
    ELSE LET forests == UNION {Forests(k, n - 1) : k \in 0..(n - 1)}
         IN  Literals
             \cup {ArrayValue(f) : f \in forests}
             \cup UNION {{ObjectValue([i \in DOMAIN f |-> Item(ks[i], f[i])]) :
                             ks \in KeySeqs(Len(f))} : f \in forests}

-----------------------------------------------------------------------------
(* The states the specifications start from                                *)

Names == {"p", "q"}
Procs == {1, 2}

\* The empty name, and the name of a scoped package: path.join(
\* trustStoreFolder, packageName + '.trust') then names a file in the
\* subfolder @s of the trust store.
EmptyName  == ""
ScopedName == "@s/p"

InSubfolder(packageName) == packageName = ScopedName

RecordNames == Names \cup {EmptyName, ScopedName}

NoRecords == [n \in RecordNames |-> NoRecord]

\* A trust-store call: what was called, where it stands, how it ended, and
\* the call the same process made before it.
NoCall == [op |-> "idle", identity |-> NoIdentity, packageName |-> "",
           outcome |-> "none"]

Call(op, ident, packageName, at, outcome, prev) ==
    [op |-> op, identity |-> ident, packageName |-> packageName, pc |-> at,
     outcome |-> outcome, prev |-> prev]

IdleOp == Call("idle", NoIdentity, "", "done", "none", NoCall)

\* toDeterministicString has not been called.
NotComputed == <<"<not computed>">>

\* No call has ended before the current one.
SessionIdle == calls = <<>>

\* execute returns no exit code before it returns.
NoExitCode == 2

\* The verify command has not been run.
CommandIdle ==
    /\ cPackages = <<>>
    /\ cTarball = FALSE
    /\ cPc = "idle"
    /\ cResults = <<>>
    /\ cFirst = <<>>
    /\ cPrompts = <<>>
    /\ cTrustResults = <<>>
    /\ cLoop = 0
    /\ cDidModify = FALSE
    /\ cVerifications = 0
    /\ cAdds = <<>>
    /\ cExit = NoExitCode

\* normalizeSync and normalize have not been called.
NormalizeIdle ==
    /\ nInput = NoValue
    /\ nSync = NotComputed
    /\ nStarted = FALSE
    /\ nQueue = <<>>
    /\ nFrames = <<>>
    /\ nDelivered = <<>>

FilesIdle ==
    /\ fFiles = <<>>
    /\ fContext = [dir |-> Dir, relFilesOnDisk |-> <<>>, expectedPackageName |-> "",
                   signatureEntries |-> NoSignatureEntries]
    /\ fDisk = [p \in {PathA} |-> NoFile]
    /\ fResult = Pending
    /\ fString = NotComputed

VerifyIdle ==
    /\ signatureJson = SignatureMissing
    /\ disk = [p \in {PathA, PathPackage} |-> NoFile]
    /\ pc = "off"
    /\ expectedPackageName = ""
    /\ entryIndex = 1
    /\ identity = NoIdentity
    /\ verifierCall = NoVerifierCall
    /\ log = <<>>
    /\ result = Pending

TrustIdle ==
    /\ proc = [p \in Procs |-> IdleOp]
    /\ opsStarted = 0
    /\ initialFiles = NoRecords

\* The files lists that the documents of Spec sign.
SignedFiles ==
    { <<FileEntry(PathA, Sha512("hi")), FileEntry(PathPackage, Sha512(PkgP))>>,
      <<FileEntry(PathPackage, Sha512(PkgP))>> }

EntryCatalogue ==
    {FilesEntry(f) : f \in SignedFiles}
    \cup {IdentityEntry(i) : i \in {Alice, KeyUrl, Nobody}}
    \cup {PackageJsonEntry("p")}

Documents == {SignatureDocument(es) : es \in SeqsUpTo(EntryCatalogue, MaxEntries)}

\* Documents with an entry of an unknown type, alone and after known entries.
UnknownTagDocuments ==
    { SignatureParse(<<UnknownEntry>>),
      SignatureParse(<<IdentityEntry(Alice), UnknownEntry>>) }

\* Documents whose identity has both fields populated, Keybase user first.
BothFieldsDocuments ==
    { SignatureDocument(<<IdentityEntry(AliceUrl)>>),
      SignatureDocument(<<IdentityEntry(AliceUrl), IdentityEntry(KeyUrl)>>) }

Disk(a, m) == [p \in {PathA, PathPackage} |-> IF p = PathA THEN a ELSE m]

\* Package directories: every state of a.txt beside a manifest named p, and
\* every state of the manifest beside the signed a.txt.
Disks == {Disk(a, PkgP) : a \in {NoFile, "hi", "ho"}}
         \cup {Disk("hi", m) : m \in {NoFile, PkgGarbage, PkgP, PkgQ}}

\* home, the trust-store folder and its record files.
TrustStores ==
    { <<HomeSet, "missing", NoRecords>>,
      <<HomeSet, "exists", NoRecords>>,
      <<HomeSet, "exists", [NoRecords EXCEPT !["p"] = JSONStringify(Alice)]>>,
      <<undefined, "missing", NoRecords>> }

Init ==
    /\ signatureJson \in {SignatureMissing, SignatureUnparsable} \cup Documents
                         \cup UnknownTagDocuments \cup BothFieldsDocuments
    /\ disk \in Disks
    /\ \E ts \in TrustStores :
          home = ts[1] /\ trustDir = ts[2] /\ trustFiles = ts[3]
    /\ pc = "idle"
    /\ expectedPackageName = ""
    /\ entryIndex = 1
    /\ identity = NoIdentity
    /\ verifierCall = NoVerifierCall
    /\ log = <<>>
    /\ result = Pending
    /\ FilesIdle
    /\ TrustIdle
    /\ SessionIdle
    /\ NormalizeIdle
    /\ CommandIdle

Next ==
    \/ Start
    \/ ReadSignature
    \/ CheckEntry
    \/ ExtractIdentity
    \/ SelectVerifier
    \/ VerifySignature
    \/ ReadPackageJson
    \/ CheckName
    \/ ConsultTrustStore

Spec == Init /\ [][Next]_vars

-----------------------------------------------------------------------------
(* SpecFiles: one call of SignatureFilesEntry.verify on its own, with a    *)
(* context that carries signatureEntries or, as built by                   *)
(* ModuleVerifier.verify, does not.                                        *)

FPaths == <<PathA, PathB, PathPackage, PathSignature>>

FDisks ==
    {[p \in Range(FPaths) |->
         CASE p = PathA -> a [] p = PathB -> b [] p = PathPackage -> m
           [] p = PathSignature -> g] :
     a \in {NoFile, "hi", "ho"}, b \in {NoFile, "hi"},
     m \in {NoFile, "hi", "ho"}, g \in {NoFile, "hi"}}

\* Directories with d/a.txt and, where the host allows a backslash in a file
\* name, a file of the folder itself that is named d\a.txt.
FSubDisks ==
    {[p \in Range(FPaths) \cup {PathSub, PathBack} |->
         CASE p = PathA -> "hi" [] p = PathSub -> s [] p = PathBack -> k
           [] OTHER -> NoFile] :
     s \in {NoFile, "hi"}, k \in {NoFile, "hi", "ho"}}

FFilePairs == {FileEntry(p, Sha512(c)) : p \in Range(FPaths), c \in {"hi", "ho"}}
              \cup {FileEntry(PathSub, Sha512("hi")),
                    FileEntry(PathLineFeeds, Sha512("ho"))}

Reverse(s) == [i \in DOMAIN s |-> s[Len(s) + 1 - i]]

\* The directory listing of dsk, in the order of the sequence paths.
Walk(dsk, paths) ==
    LET on(p) == p \in DOMAIN dsk /\ dsk[p] # NoFile
    IN  SelectSeq(paths, on)

\* The same listing as a host with backslash separators reports it.
Backslashed(paths) ==
    [i \in DOMAIN paths |->
        [j \in DOMAIN paths[i] |-> IF paths[i][j] = "/" THEN "\\" ELSE paths[i][j]]]

\* The lists a caller may hand to verify for the directory dsk: its files in
\* either order, with backslash separators where no file name holds a
\* backslash, and a list made before files of the directory went away.
FListings(dsk) ==
    LET all == FPaths \o <<PathSub, PathBack>>
    IN  {Walk(dsk, all), Walk(dsk, Reverse(all)), FPaths}
        \cup (IF Walk(dsk, <<PathBack>>) = <<>>
              THEN {Backslashed(Walk(dsk, all))} ELSE {})

FSignatureEntries ==
    { NoSignatureEntries,
      SignatureEntries(<<FilesTag, IdentityTag>>),
      SignatureEntries(<<PackageJsonTag, FilesTag, IdentityTag>>) }

FInit ==
    /\ fFiles \in SeqsUpTo(FFilePairs, MaxFiles)
    /\ fDisk \in FDisks \cup FSubDisks
    /\ \E rel \in FListings(fDisk), se \in FSignatureEntries :
          fContext = [dir |-> Dir, relFilesOnDisk |-> rel,
                      expectedPackageName |-> "p", signatureEntries |-> se]
    /\ fResult = Pending
    /\ fString = NotComputed
    /\ VerifyIdle
    /\ home = HomeSet /\ trustDir = "missing" /\ trustFiles = NoRecords
    /\ TrustIdle
    /\ SessionIdle
    /\ NormalizeIdle
    /\ CommandIdle

\* entry.toDeterministicString(), called for the message to verify
FilesSerialize ==
    /\ fString = NotComputed
    /\ fString' = FilesToDeterministicString(fFiles)
    /\ UNCHANGED <<fFiles, fContext, fDisk, fResult, mvars, svars, tvars, avars, nvars, cvars>>

\* await entry.verify(context)
FilesVerify ==
    /\ fString # NotComputed
    /\ fResult = Pending
    /\ fResult' = FilesEntryVerify(fFiles, fContext, fDisk)
    /\ UNCHANGED <<fFiles, fContext, fDisk, fString, mvars, svars, tvars, avars, nvars, cvars>>

FNext == FilesSerialize \/ FilesVerify

SpecFiles == FInit /\ [][FNext]_vars

-----------------------------------------------------------------------------
(* SpecTrust: isTrusted and addTrusted called by concurrent processes on   *)
(* one trust store.  Each file-system call is one step.                    *)

\* What a finished call leaves as the process's previous call.
Done(c) == [op |-> c.op, identity |-> c.identity, packageName |-> c.packageName,
            outcome |-> c.outcome]

\* Process p calls op(ident, name).
Begin(p, op) ==
    /\ proc[p].pc = "done"
    /\ opsStarted < MaxOps
    /\ \E ident \in Identities, name \in Names :
          proc' = [proc EXCEPT ![p] =
                     Call(op, ident, name, "create", "none", Done(proc[p]))]
    /\ opsStarted' = opsStarted + 1
    /\ UNCHANGED <<svars, initialFiles, mvars, fvars, avars, nvars, cvars>>

BeginIsTrusted(p)  == Begin(p, "isTrusted")
BeginAddTrusted(p) == Begin(p, "addTrusted")

\* The call of p ends with outcome o.
Ended(p, o) == [proc EXCEPT ![p].pc = "done", ![p].outcome = o]

\* createTrustStoreIfNecessary up to fs.existsSync.
CreateTrustStore(p) ==
    /\ proc[p].pc = "create"
    /\ proc' = IF JoinRaises(home) THEN Ended(p, "threw")
               ELSE IF ExistsSync(trustDir) THEN [proc EXCEPT ![p].pc = "io"]
               ELSE [proc EXCEPT ![p].pc = "mkdir"]
    /\ UNCHANGED <<svars, opsStarted, initialFiles, mvars, fvars, avars, nvars, cvars>>

\* fs.mkdirSync(trustStoreFolder)
Mkdir(p) ==
    /\ proc[p].pc = "mkdir"
    /\ IF MkdirRaises(trustDir)
       THEN proc' = Ended(p, "threw") /\ UNCHANGED trustDir
       ELSE proc' = [proc EXCEPT ![p].pc = "io"] /\ trustDir' = "exists"
    /\ UNCHANGED <<home, trustFiles, opsStarted, initialFiles, mvars, fvars, avars, nvars, cvars>>

\* isTrusted: read the record file, parse and compare.
ReadRecord(p) ==
    /\ proc[p].pc = "io"
    /\ proc[p].op = "isTrusted"
    /\ proc' = Ended(p, IF TrustAnswer(trustFiles[proc[p].packageName],
                                       proc[p].identity)
                        THEN "true" ELSE "false")
    /\ UNCHANGED <<svars, opsStarted, initialFiles, mvars, fvars, avars, nvars, cvars>>

\* What a plain write of a file does first: open it, creating or
\* truncating it.
OpenForWrite(content) == EmptyText

\* ... and then: write the data at the start of the file.
WriteAtStart(content, data) ==
    data \o SubSeq(content, Len(data) + 1, Len(content))

\* addTrusted: writeFilePromise(packageFilename, ...) opens the record file.
OpenRecord(p) ==
    /\ proc[p].pc = "io"
    /\ proc[p].op = "addTrusted"
    /\ trustFiles' = [trustFiles EXCEPT ![proc[p].packageName] = OpenForWrite(@)]
    /\ proc' = [proc EXCEPT ![p].pc = "write"]
    /\ UNCHANGED <<home, trustDir, opsStarted, initialFiles, mvars, fvars, avars, nvars, cvars>>

\* The write landing in the record file of every name, as with one index
\* file for all packages.
WriteRecordAllNames(p) ==
    /\ proc[p].pc = "write"
    /\ trustFiles' = [n \in DOMAIN trustFiles |->
                         IF n \in Names
                         THEN WriteAtStart(OpenForWrite(trustFiles[n]),
                                           JSONStringify(proc[p].identity))
                         ELSE trustFiles[n]]
    /\ proc' = Ended(p, "returned")
    /\ UNCHANGED <<home, trustDir, opsStarted, initialFiles, mvars, fvars, avars, nvars, cvars>>

\* addTrusted: the write of JSON.stringify(identity) lands.
WriteRecord(p) ==
    /\ proc[p].pc = "write"
    /\ trustFiles' = [trustFiles EXCEPT ![proc[p].packageName] =
                         WriteAtStart(@, JSONStringify(proc[p].identity))]
    /\ proc' = Ended(p, "returned")
    /\ UNCHANGED <<home, trustDir, opsStarted, initialFiles, mvars, fvars, avars, nvars, cvars>>

TrustStoresT ==
    { <<HomeSet, "missing", NoRecords>>,
      <<HomeSet, "blocked", NoRecords>>,
      <<HomeSet, "exists", NoRecords>>,
      <<HomeSet, "exists", [NoRecords EXCEPT !["p"] = JSONStringify(Alice)]>>,
      <<HomeSet, "exists", [NoRecords EXCEPT !["p"] = GarbageText]>>,
      <<undefined, "missing", NoRecords>> }

TInit ==
    /\ \E ts \in TrustStoresT :
          home = ts[1] /\ trustDir = ts[2] /\ trustFiles = ts[3]
    /\ initialFiles = trustFiles
    /\ proc = [p \in Procs |-> IdleOp]
    /\ opsStarted = 0
    /\ VerifyIdle
    /\ FilesIdle
    /\ SessionIdle
    /\ NormalizeIdle
    /\ CommandIdle

TNext ==
    \E p \in Procs :
        \/ BeginIsTrusted(p)
        \/ BeginAddTrusted(p)
        \/ CreateTrustStore(p)
        \/ Mkdir(p)
        \/ ReadRecord(p)
        \/ OpenRecord(p)
        \/ WriteRecord(p)

SpecTrust == TInit /\ [][TNext]_vars

-----------------------------------------------------------------------------
(* SpecSession: verify called on one package directory, the operator's     *)
(* approvals (TrustStore.addTrusted) between the calls, and verify called  *)
(* again with the same arguments.  One process, so a trust-store call runs *)
(* without interruption.                                                   *)

\* A call that has ended: verify with the identity it extracted and its
\* outcome, addTrusted with its arguments and its outcome.
SessionCall(op, ident, packageName, outcome) ==
    [op |-> op, identity |-> ident, packageName |-> packageName,
     outcome |-> outcome]

\* addTrusted returned.
Returns == Verdict("returned", <<>>, "", NoIdentity)

\* The calls with the verify call that has just ended added to them.
Filed ==
    IF pc = "done"
    THEN Append(calls, SessionCall("verify", identity, expectedPackageName, result))
    ELSE calls

StartAny == StartWith(RecordNames)

\* Whether addTrusted(ident, packageName) raises: in
\* createTrustStoreIfNecessary, or in the write of a record file whose
\* folder does not exist.
AddRaises(hm, dir, packageName) ==
    CreateRaises(hm, dir) \/ InSubfolder(packageName)

\* The record files after addTrusted(ident, packageName).
FilesAfterAdd(files, hm, dir, ident, packageName) ==
    IF AddRaises(hm, dir, packageName) THEN files
    ELSE [files EXCEPT ![packageName] =
              WriteAtStart(OpenForWrite(@), JSONStringify(ident))]

\* The operator approves an identity for a name: the identity the last
\* verify call extracted or another one, for the expected name or another.
AddTrusted ==
    /\ pc \in {"done", "between"}
    /\ Len(Filed) < MaxCalls
    /\ \E ident \in ({identity} \ {NoIdentity}) \cup {Bob},
          packageName \in {expectedPackageName, "q"} :
          /\ trustFiles' = FilesAfterAdd(trustFiles, home, trustDir, ident, packageName)
          /\ calls' = Append(Filed,
                 SessionCall("addTrusted", ident, packageName,
                     IF AddRaises(home, trustDir, packageName)
                     THEN Threw(IF JoinRaises(home) THEN "TypeError" ELSE IOError)
                     ELSE Returns))
    /\ trustDir' = DirAfterCreate(home, trustDir)
    /\ pc' = "between"
    /\ result' = Pending
    /\ log' = <<>>
    /\ UNCHANGED <<signatureJson, disk, expectedPackageName, entryIndex,
                   identity, verifierCall, home, fvars, tvars, nvars, cvars>>

\* verify is called again, with the arguments of the call before.
VerifyAgain ==
    /\ pc \in {"done", "between"}
    /\ Len(Filed) <= MaxCalls
    /\ calls' = Filed
    /\ pc' = "readSignature"
    /\ entryIndex' = 1
    /\ identity' = NoIdentity
    /\ verifierCall' = NoVerifierCall
    /\ log' = <<>>
    /\ result' = Pending
    /\ UNCHANGED <<signatureJson, disk, expectedPackageName, svars, fvars, tvars, nvars, cvars>>

\* The documents of the sessions: an identity alone, a package-manifest
\* entry before an identity, and a files entry before an identity.
SessionDocuments ==
    { SignatureDocument(<<IdentityEntry(Alice)>>),
      SignatureDocument(<<PackageJsonEntry("p"), IdentityEntry(KeyUrl)>>),
      SignatureDocument(<<FilesEntry(<<FileEntry(PathA, Sha512("hi")),
                                       FileEntry(PathPackage, Sha512(PkgP))>>),
                          IdentityEntry(Alice)>>) }

\* The package directories of the sessions: every state of the manifest.
SessionDisks ==
    {Disk("hi", m) : m \in {NoFile, PkgGarbage, PkgP, PkgQ, PkgScoped,
                            PkgNoName, PkgArrayP, PkgNull}}

SInit ==
    /\ signatureJson \in SessionDocuments
    /\ disk \in SessionDisks
    /\ \E ts \in TrustStores :
          home = ts[1] /\ trustDir = ts[2] /\ trustFiles = ts[3]
    /\ pc = "idle"
    /\ expectedPackageName = ""
    /\ entryIndex = 1
    /\ identity = NoIdentity
    /\ verifierCall = NoVerifierCall
    /\ log = <<>>
    /\ result = Pending
    /\ FilesIdle
    /\ TrustIdle
    /\ SessionIdle
    /\ NormalizeIdle
    /\ CommandIdle

SNext ==
    \/ StartAny
    \/ ReadSignature
    \/ CheckEntry
    \/ ExtractIdentity
    \/ SelectVerifier
    \/ VerifySignature
    \/ ReadPackageJson
    \/ CheckName
    \/ ConsultTrustStore
    \/ AddTrusted
    \/ VerifyAgain

SpecSession == SInit /\ [][SNext]_vars

-----------------------------------------------------------------------------
(* SpecNormalize: normalizeSync(obj) and normalize(obj, undefined, complete) *)
(* called on one value.  serialize defers its work with process.nextTick;   *)
(* each closure taken from the nextTick queue and run is one step.  No      *)
(* value of the model makes JSON.stringify throw, so handledError stays     *)
(* null and is left out.                                                    *)

\* The closure serialize hands to process.nextTick: the value after
\* handleReplacer, and its done (the callback of the activation frame for
\* the key at index; frame 0 is the caller's complete).
Task(value, frame, index) == [value |-> value, frame |-> frame, index |-> index]

\* One activation of handleObject: obj, values, complete, and its done.
Frame(obj, frame, index) ==
    [obj |-> obj, values |-> [i \in DOMAIN obj.items |-> Hole], complete |-> 0,
     frame |-> frame, index |-> index]

\* serialize(obj, undefined, done, key)
Serialize(st, obj, frame, index) ==
    [st EXCEPT !.queue = Append(@, Task(HandleReplacer(obj), frame, index))]

RECURSIVE CallDone(_, _, _, _)
RECURSIVE OnSerialized(_, _, _, _, _)
\* done(null, val) of the task for the key at index of the activation frame.
CallDone(st, frame, index, val) ==
    IF frame = 0 THEN [st EXCEPT !.delivered = Append(@, val)]
    ELSE LET obj == st.frames[frame].obj
         IN  OnSerialized(st, frame, index,
                          IF obj.kind = "array" THEN ArraySlot(val)
                          ELSE ObjectSlot(obj.items[index].key, val),
                          TRUE)

\* handleObject.onSerialized(null, value, index)
OnSerialized(st, frame, index, value, hasIndex) ==
    LET fr     == st.frames[frame]
        values == IF hasIndex THEN [fr.values EXCEPT ![index] = value]
                  ELSE fr.values
        after  == [st EXCEPT !.frames[frame].values = values,
                             !.frames[frame].complete = @ + 1]
    IN  IF fr.complete + 1 # Len(fr.obj.items) THEN after
        ELSE CallDone(after, fr.frame, fr.index,
                      OnComplete(fr.obj.kind = "array", values))

\* keys.map(isArray ? mapArray : mapObject), from the i-th key on
RECURSIVE MapKeys(_, _, _)
MapKeys(st, frame, i) ==
    LET obj == st.frames[frame].obj
    IN  IF i > Len(obj.items) THEN st
        ELSE LET value == obj.items[i].value
                 next  ==
                   IF obj.kind = "array"
                   THEN Serialize(st, ArrayElement(value), frame, i)
                   ELSE IF value.kind = "undefined"
                   THEN OnSerialized(st, frame, i, NullSlot, FALSE)
                   ELSE Serialize(st, value, frame, i)
             IN  MapKeys(next, frame, i + 1)

\* handleObject(serialize, value, undefined, done)
HandleObject(st, value, frame, index) ==
    IF value.items = <<>>
    THEN CallDone(st, frame, index, OnComplete(value.kind = "array", <<>>))
    ELSE MapKeys([st EXCEPT !.frames = Append(@, Frame(value, frame, index))],
                 Len(st.frames) + 1, 1)

\* The closure of serialize, run by process.nextTick.
RunTask(st, task) ==
    IF IsLiteral(task.value)
    THEN CallDone(st, task.frame, task.index, HandleLiteral(task.value))
    ELSE HandleObject(st, task.value, task.frame, task.index)

NInit ==
    /\ nInput \in ValuesUpTo(MaxNodes)
    /\ nSync = NotComputed
    /\ nStarted = FALSE
    /\ nQueue = <<>>
    /\ nFrames = <<>>
    /\ nDelivered = <<>>
    /\ VerifyIdle
    /\ home = HomeSet /\ trustDir = "missing" /\ trustFiles = NoRecords
    /\ FilesIdle
    /\ TrustIdle
    /\ SessionIdle
    /\ CommandIdle

\* normalizeSync(obj)
CallNormalizeSync ==
    /\ nSync = NotComputed
    /\ nSync' = NormalizeSync(nInput)
    /\ UNCHANGED <<nInput, nStarted, nQueue, nFrames, nDelivered,
                   fvars, mvars, svars, tvars, avars, cvars>>

\* normalize(obj, undefined, complete)
CallNormalize ==
    /\ ~nStarted
    /\ nStarted' = TRUE
    /\ nQueue' = Serialize([frames |-> nFrames, queue |-> nQueue,
                            delivered |-> nDelivered], nInput, 0, 0).queue
    /\ UNCHANGED <<nInput, nSync, nFrames, nDelivered,
                   fvars, mvars, svars, tvars, avars, cvars>>

\* process.nextTick runs the closure at the head of its queue.
Tick ==
    /\ nQueue # <<>>
    /\ LET st == RunTask([frames |-> nFrames, queue |-> Tail(nQueue),
                          delivered |-> nDelivered], Head(nQueue))
       IN  /\ nFrames' = st.frames
           /\ nQueue' = st.queue
           /\ nDelivered' = st.delivered
    /\ UNCHANGED <<nInput, nSync, nStarted, fvars, mvars, svars, tvars, avars, cvars>>

NNext == CallNormalizeSync \/ CallNormalize \/ Tick

SpecNormalize == NInit /\ [][NNext]_vars

-----------------------------------------------------------------------------
(* SpecCommand: the verify command (commands/verify.ts) run on a directory  *)
(* of packages.  One action per stretch of execute / verifyDirectory        *)
(* between two awaits.  ModuleHierarchyVerifier and the prompt library are  *)
(* collaborators: the first is taken to verify every package it finds with  *)
(* the name of its folder, the second to answer every prompt it is given.   *)

\* A package the walker finds: the path of its folder (a sequence of
\* segments), what verification says of its content, and who signed it.
Package(path, state, ident) == [path |-> path, state |-> state, identity |-> ident]

\* results[path]
PathResult(path, res) == [path |-> path, result |-> res]

\* path.basename
Basename(path) == path[Len(path)]

\* The folders of the model: p, q, and a second p nested in q.
FolderP       == <<"node_modules", "p">>
FolderQ       == <<"node_modules", "q">>
FolderPNested == <<"node_modules", "q", "node_modules", "p">>
Folders       == {FolderP, FolderQ, FolderPNested}

\* ModuleHierarchyVerifier.verify(): the result of every package, in the
\* order the walker found them.
HierarchyVerify(packages, files) ==
    [i \in DOMAIN packages |->
        LET pkg  == packages[i]
            name == Basename(pkg.path)
        IN  PathResult(pkg.path,
                CASE pkg.state = "Compromised" -> Compromised(<<>>, name)
                  [] pkg.state = "Unsigned"    -> Unsigned(<<>>, name)
                  [] OTHER ->
                       TrustVerdict(TrustAnswer(files[name], pkg.identity),
                                    pkg.identity, name))]

\* results[path] for a path that is a key of results
ResultAt(results, path) ==
    LET i == CHOOSE i \in DOMAIN results : results[i].path = path
    IN  results[i].result

\* The prompts collected from results, from the i-th result on: one for each
\* Untrusted package whose basename has no prompt yet.
RECURSIVE CollectPrompts(_, _, _)
CollectPrompts(results, prompts, i) ==
    IF i > Len(results) THEN prompts
    ELSE LET path == results[i].path
             push == /\ results[i].result.status = "Untrusted"
                     /\ \A k \in DOMAIN prompts :
                           Basename(prompts[k]) # Basename(path)
         IN  CollectPrompts(results,
                            IF push THEN Append(prompts, path) ELSE prompts,
                            i + 1)

\* The outcome when only compromised packages are counted.
OutcomeCountingCompromisedOnly(results) ==
    \A i \in DOMAIN results : results[i].result.status # "Compromised"

\* What verifyDirectory returns after the summary: whether no package is
\* counted as compromised, unsigned or untrusted.
Outcome(results) ==
    \A i \in DOMAIN results :
        results[i].result.status \notin {"Compromised", "Unsigned", "Untrusted"}

\* execute: the exit code for the outcome
ExitCode(outcome) == IF outcome THEN 0 ELSE 1

\* The position of the next accepted prompt of trustResults from i on, or 0.
NextAccepted(trustResults, i) ==
    IF \E k \in i..Len(trustResults) : trustResults[k].value
    THEN CHOOSE k \in i..Len(trustResults) :
            /\ trustResults[k].value
            /\ \A j \in i..(k - 1) : ~trustResults[j].value
    ELSE 0

\* The packages a run may find: at most MaxPackages folders, each compromised,
\* unsigned, or signed by Alice or by Bob.
PackageStates ==
    {<<"Compromised", NoIdentity>>, <<"Unsigned", NoIdentity>>,
     <<"Signed", Alice>>, <<"Signed", Bob>>}

PackageLists ==
    UNION {{[i \in 1..n |-> Package(paths[i], sts[i][1], sts[i][2])] :
               paths \in {f \in [1..n -> Folders] :
                            \A i, j \in 1..n : f[i] = f[j] => i = j},
               sts \in [1..n -> PackageStates]} : n \in 0..MaxPackages}

CInit ==
    /\ cPackages \in PackageLists
    /\ cTarball \in BOOLEAN
    /\ cPc = "idle"
    /\ cResults = <<>>
    /\ cFirst = <<>>
    /\ cPrompts = <<>>
    /\ cTrustResults = <<>>
    /\ cLoop = 0
    /\ cDidModify = FALSE
    /\ cVerifications = 0
    /\ cAdds = <<>>
    /\ cExit = NoExitCode
    /\ home = HomeSet
    /\ trustDir = "exists"
    /\ trustFiles \in {NoRecords, [NoRecords EXCEPT !["p"] = JSONStringify(Alice)]}
    /\ VerifyIdle
    /\ FilesIdle
    /\ TrustIdle
    /\ SessionIdle
    /\ NormalizeIdle

\* execute(path): verifyTarball throws; verifyDirectory runs up to its first
\* await, the hierarchy verification.
Execute ==
    /\ cPc = "idle"
    /\ cPc' = IF cTarball THEN "threw" ELSE "verifying"
    /\ UNCHANGED <<cPackages, cTarball, cResults, cFirst, cPrompts, cTrustResults,
                   cLoop, cDidModify, cVerifications, cAdds, cExit,
                   fvars, mvars, svars, tvars, avars, nvars>>

\* The first hierarchy verification returns: the prompts are collected; with
\* none, the summary is printed and execute returns.
FirstVerification ==
    /\ cPc = "verifying"
    /\ cVerifications = 0
    /\ LET results == HierarchyVerify(cPackages, trustFiles)
           prompts == CollectPrompts(results, <<>>, 1)
       IN  /\ cResults' = results
           /\ cFirst' = results
           /\ cPrompts' = prompts
           /\ IF prompts = <<>>
              THEN cPc' = "exited" /\ cExit' = ExitCode(Outcome(results))
              ELSE cPc' = "prompting" /\ UNCHANGED cExit
    /\ cVerifications' = 1
    /\ UNCHANGED <<cPackages, cTarball, cTrustResults, cLoop, cDidModify, cAdds,
                   fvars, mvars, svars, tvars, avars, nvars>>

\* prompt.get fails: the promise rejects and so does execute.
PromptRejected ==
    /\ cPc = "prompting"
    /\ cPc' = "threw"
    /\ UNCHANGED <<cPackages, cTarball, cResults, cFirst, cPrompts, cTrustResults,
                   cLoop, cDidModify, cVerifications, cAdds, cExit,
                   fvars, mvars, svars, tvars, avars, nvars>>

\* prompt.get answers: the loop runs to the first accepted prompt and calls
\* addTrusted for it; with none accepted, the summary is printed and execute
\* returns.
PromptAnswered ==
    /\ cPc = "prompting"
    /\ \E answers \in [DOMAIN cPrompts -> BOOLEAN] :
          LET trustResults == [k \in DOMAIN cPrompts |->
                                 [name |-> cPrompts[k], value |-> answers[k]]]
              first == NextAccepted(trustResults, 1)
          IN  /\ cTrustResults' = trustResults
              /\ cLoop' = first
              /\ IF first = 0
                 THEN /\ cPc' = "exited"
                      /\ cExit' = ExitCode(Outcome(cResults))
                      /\ UNCHANGED cAdds
                 ELSE /\ cPc' = "adding"
                      /\ cAdds' = Append(cAdds,
                            [path |-> trustResults[first].name,
                             identity |-> ResultAt(cResults, trustResults[first].name)
                                             .untrustedIdentity,
                             packageName |-> Basename(trustResults[first].name)])
                      /\ UNCHANGED cExit
    /\ UNCHANGED <<cPackages, cTarball, cResults, cFirst, cPrompts, cDidModify,
                   cVerifications, fvars, mvars, svars, tvars, avars, nvars>>

\* The addTrusted call awaited returns: didModify is set, and the loop runs
\* to the next accepted prompt, or to the second hierarchy verification.
AddTrustedReturned ==
    /\ cPc = "adding"
    /\ LET call == cAdds[Len(cAdds)]
           next == NextAccepted(cTrustResults, cLoop + 1)
       IN  /\ ~AddRaises(home, trustDir, call.packageName)
           /\ trustFiles' = FilesAfterAdd(trustFiles, home, trustDir,
                                          call.identity, call.packageName)
           /\ trustDir' = DirAfterCreate(home, trustDir)
           /\ cDidModify' = TRUE
           /\ cLoop' = next
           /\ IF next = 0
              THEN cPc' = "verifying" /\ UNCHANGED cAdds
              ELSE /\ cPc' = "adding"
                   /\ cAdds' = Append(cAdds,
                         [path |-> cTrustResults[next].name,
                          identity |-> ResultAt(cResults, cTrustResults[next].name)
                                          .untrustedIdentity,
                          packageName |-> Basename(cTrustResults[next].name)])
    /\ UNCHANGED <<cPackages, cTarball, cResults, cFirst, cPrompts, cTrustResults,
                   cVerifications, cExit, home, fvars, mvars, tvars, avars, nvars>>

\* The second hierarchy verification returns: the summary is printed over
\* its results and execute returns.
SecondVerification ==
    /\ cPc = "verifying"
    /\ cVerifications = 1
    /\ cResults' = HierarchyVerify(cPackages, trustFiles)
    /\ cVerifications' = 2
    /\ cPc' = "exited"
    /\ cExit' = ExitCode(Outcome(cResults'))
    /\ UNCHANGED <<cPackages, cTarball, cFirst, cPrompts, cTrustResults, cLoop,
                   cDidModify, cAdds, fvars, mvars, svars, tvars, avars, nvars>>

CNext ==
    \/ Execute
    \/ FirstVerification
    \/ PromptRejected
    \/ PromptAnswered
    \/ AddTrustedReturned
    \/ SecondVerification

SpecCommand == CInit /\ [][CNext]_vars

-----------------------------------------------------------------------------
(* What the claims speak of, stated on the package and the document alone  *)

Entries == signatureJson.entries

FilesEntryIndices == {i \in DOMAIN Entries : Entries[i].entry = FilesTag}

HasPackageJsonEntry == \E i \in DOMAIN Entries : Entries[i].entry = PackageJsonTag

\* The paths a files entry's check is to leave alone.
SkipSet == {PathSignature} \cup (IF HasPackageJsonEntry THEN {PathPackage} ELSE {})

OnDisk == Range(RelFilesOnDisk)

ListedIn(i, path) == \E k \in DOMAIN Entries[i].files : Entries[i].files[k].path = path

\* Files entry i lists path with the SHA-512 of the content on disk.
ListedWithHash(i, path) ==
    \E k \in DOMAIN Entries[i].files :
        /\ Entries[i].files[k].path = path
        /\ Entries[i].files[k].sha512 = Sha512(disk[path])

\* (a) every on-disk path outside the skip set is listed with a matching hash
AllOnDiskSigned ==
    \A path \in OnDisk \ SkipSet :
        /\ FilesEntryIndices # {}
        /\ \A i \in FilesEntryIndices : ListedWithHash(i, path)

\* (b) no listed path is missing from disk
NoneMissing ==
    \A i \in FilesEntryIndices : \A k \in DOMAIN Entries[i].files :
        Entries[i].files[k].path \in OnDisk \cup {PathSignature}

\* (c) the verifier accepted the signature over the canonical message
SignatureAccepted ==
    /\ verifierCall.accepted
    /\ verifierCall.identity = identity
    /\ verifierCall.message = CreateDeterministicString(Entries)

\* (d) the manifest name equals the expected name
NameMatches ==
    /\ disk[PathPackage] # NoFile
    /\ ManifestName(disk[PathPackage]) = expectedPackageName

\* (e) the trust store holds the identity for the expected name
RecordMatches ==
    /\ trustFiles[expectedPackageName] # NoRecord
    /\ trustFiles[expectedPackageName] = JSONStringify(identity)

Returned == pc = "done"

LastStep == log[Len(log)]

\* C1: verify returns Trusted or Untrusted only if (a) every on-disk path
\* outside the skip set is listed in the files entry with a matching SHA-512,
\* (b) no listed path is missing from disk, (c) the verifier accepted the
\* signature over the canonical message for the extracted identity and (d)
\* the manifest name equals the expected name; the verdict is then Trusted
\* exactly when the trust store holds a matching record, and otherwise
\* Untrusted carrying the identity.
C1_VerdictOnlyIfSigned ==
    (Returned /\ result.status \in {"Trusted", "Untrusted"}) =>
        /\ AllOnDiskSigned
        /\ NoneMissing
        /\ SignatureAccepted
        /\ NameMatches
        /\ result.status = "Trusted" <=> RecordMatches
        /\ result.status = "Untrusted" => result.untrustedIdentity = identity

\* The rank of a step in the order of verify; every entry check has rank 2.
StepRank(name) ==
    CASE name = "readSignature"   -> 1
      [] name = "entry"           -> 2
      [] name = "identity"        -> 3
      [] name = "selectVerifier"  -> 4
      [] name = "verifySignature" -> 5
      [] name = "readPackageJson" -> 6
      [] name = "checkName"       -> 7
      [] name = "trustStore"      -> 8

\* The step that may follow step s when s passed, in a document of n entries.
FollowsInOrder(s, t, n) ==
    CASE s.step = "readSignature" ->
            IF n = 0 THEN t.step = "identity" ELSE t.step = "entry" /\ t.index = 1
      [] s.step = "entry" ->
            IF s.index = n THEN t.step = "identity"
            ELSE t.step = "entry" /\ t.index = s.index + 1
      [] OTHER -> StepRank(t.step) = StepRank(s.step) + 1

\* The verdict of a step that fails; the entry checks bring their own.
FailureOf(s) ==
    CASE s.step = "readSignature" ->
            Unsigned(<<"Missing or unparsable signature.json">>, expectedPackageName)
      [] s.step = "identity" ->
            Compromised(<<"No identity information in signature.json">>,
                        expectedPackageName)
      [] s.step = "selectVerifier" ->
            Compromised(<<"Unknown identity in signature.json">>, expectedPackageName)
      [] s.step = "verifySignature" ->
            Compromised(<<"The signature does not match">>, expectedPackageName)
      [] s.step = "readPackageJson" ->
            Compromised(<<"Missing or unparsable package.json">>, expectedPackageName)
      [] s.step = "checkName" ->
            Compromised(
              <<"Provided package name in package.json did not match expected package name">>,
              expectedPackageName)
      [] OTHER -> result

\* C2: verify performs its steps in the order read/parse signature.json,
\* entry content checks in document order, identity extraction, verifier
\* selection, signature verification, read package.json, name comparison,
\* trust-store lookup; no step is performed after one that failed, and the
\* outcome of the call is that of the first step that fails.
C2_StepsInOrder ==
    /\ log # <<>> => log[1].step = "readSignature"
    /\ \A i \in 1..(Len(log) - 1) :
          /\ log[i].ok
          /\ FollowsInOrder(log[i], log[i + 1], Len(Entries))
    /\ verifierCall.verifier # "none" =>
          \A i \in DOMAIN Entries :
              \E j \in DOMAIN log :
                  log[j].step = "entry" /\ log[j].index = i /\ log[j].ok
    /\ Returned =>
          /\ log # <<>>
          /\ IF LastStep.ok
             THEN /\ LastStep.step = "trustStore"
                  /\ result.status \in {"Trusted", "Untrusted"}
             ELSE /\ result = FailureOf(LastStep)
                  /\ result.status \notin {"Trusted", "Untrusted", "pending", "null"}
    /\ ~Returned => result = Pending

\* A call that got as far as the name comparison and failed there.
C2_Witness ==
    /\ Returned
    /\ Len(Entries) >= 2
    /\ LastStep.step = "checkName"
    /\ ~LastStep.ok
    /\ verifierCall.accepted

\* C3: when a file listed in a files entry (and outside the skip set) has a
\* content on disk whose SHA-512 differs from the signed hash, verify returns
\* Compromised, and a files-entry check that ends the call reports the file
\* as not having the content that was signed for.
Tampered(i, path) ==
    /\ path \notin SkipSet
    /\ path \in OnDisk
    /\ ListedIn(i, path)
    /\ Sha512(disk[path]) # ExpectedHash(Entries[i].files, path)

C3_TamperedFileCompromised ==
    (Returned /\ signatureJson.state = "parsed") =>
        \A i \in FilesEntryIndices : \A path \in OnDisk :
            Tampered(i, path) =>
                /\ result.status = "Compromised"
                /\ (LastStep.step = "entry" /\ LastStep.index = i
                    /\ \A other \in OnDisk \ {path} : ~Tampered(i, other))
                   => result.reason \in {MismatchedHash(path)}
                                        \cup {NotInSignature(o) : o \in OnDisk}

\* C4: when a file is present in the package directory whose path is not
\* listed in a files entry and is not in the skip set, verify returns
\* Compromised; no such file is present when verify returns Trusted or
\* Untrusted.
Unlisted(i, path) ==
    /\ path \in OnDisk \ SkipSet
    /\ ~ListedIn(i, path)

C4_UnlistedFileCompromised ==
    (Returned /\ signatureJson.state = "parsed") =>
        \A i \in FilesEntryIndices : \A path \in OnDisk :
            Unlisted(i, path) => result.status = "Compromised"

\* C5: when a files entry lists a path other than signature.json that is not
\* among the on-disk paths, and nothing else is wrong with the files on
\* disk, the entry's content check fails with Compromised('<p> is expected
\* by the signature, but is missing in the package'), p being the first such
\* path of the list.
MissingListed(i) ==
    {k \in DOMAIN Entries[i].files :
        /\ Entries[i].files[k].path # PathSignature
        /\ Entries[i].files[k].path \notin OnDisk}

FirstMissing(i) ==
    Entries[i].files[CHOOSE k \in MissingListed(i) :
                        \A j \in MissingListed(i) : k <= j].path

C5_MissingFileCompromised ==
    (Returned /\ signatureJson.state = "parsed") =>
        \A i \in FilesEntryIndices :
            (/\ LastStep.step = "entry"
             /\ LastStep.index = i
             /\ MissingListed(i) # {}
             /\ \A path \in OnDisk : ~Tampered(i, path) /\ ~Unlisted(i, path))
            => result = Compromised(MissingInPackage(FirstMissing(i)),
                                    expectedPackageName)

\* C6: as invoked by ModuleVerifier.verify, the files entry never reports
\* signature.json; package.json is exempt from the listed-with-matching-hash
\* check exactly when the document has a packageJson/v1alpha1 entry; without
\* such an entry a package.json that is unlisted or whose hash differs from
\* the signed one yields Compromised.
C6_SkipSet ==
    (Returned /\ signatureJson.state = "parsed") =>
        /\ result.reason \notin {NotInSignature(PathSignature),
                                 MismatchedHash(PathSignature)}
        /\ HasPackageJsonEntry =>
              result.reason \notin {NotInSignature(PathPackage),
                                    MismatchedHash(PathPackage)}
        /\ (~HasPackageJsonEntry /\ PathPackage \in OnDisk) =>
              \A i \in FilesEntryIndices :
                  ~ListedWithHash(i, PathPackage) => result.status = "Compromised"

\* C7: verify returns Unsigned('Missing or unparsable signature.json')
\* whenever signature.json cannot be read or parsed, whatever else the
\* package holds, and Unsigned in no other situation.
C7_UnsignedIffNoSignature ==
    Returned =>
        /\ signatureJson.state # "parsed" <=> result.status = "Unsigned"
        /\ result.status = "Unsigned" =>
              result = Unsigned(<<"Missing or unparsable signature.json">>,
                                expectedPackageName)

\* signature.json is unparsable in a package whose other files are in order.
C7_Witness ==
    /\ Returned
    /\ signatureJson.state = "unparsable"
    /\ disk = Disk("hi", PkgP)
    /\ expectedPackageName = "p"
    /\ result.status = "Unsigned"

-----------------------------------------------------------------------------
(* Claims about the trust store (SpecTrust)                                *)

IsTrustedAnswered(p) ==
    /\ proc[p].op = "isTrusted"
    /\ proc[p].pc = "done"
    /\ proc[p].outcome \in {"true", "false"}

\* Process p asked isTrusted right after its own addTrusted for the same
\* name returned, and no other process has called the trust store.
AskedAfterAdd(p) ==
    /\ IsTrustedAnswered(p)
    /\ proc[p].prev.op = "addTrusted"
    /\ proc[p].prev.outcome = "returned"
    /\ proc[p].prev.packageName = proc[p].packageName
    /\ \A q \in Procs \ {p} : proc[q].op = "idle"

\* C8: after addTrusted(id, name) completes, isTrusted(id, name) returns
\* true, and isTrusted(id', name) returns false for every identity id' that
\* differs from id in the keybaseUser or the pgpPublicKeyUrl field, one
\* field being absent versus present included.
C8_TrustedIffSameIdentity ==
    \A p \in Procs :
        AskedAfterAdd(p) =>
            (proc[p].outcome = "true" <=> proc[p].identity = proc[p].prev.identity)

\* isTrusted answered false for an identity that has the approved keybase
\* user and, unlike the approved identity, a PGP key URL.
C8_Witness ==
    \E p \in Procs :
        /\ AskedAfterAdd(p)
        /\ proc[p].prev.identity = Alice
        /\ proc[p].identity = AliceUrl
        /\ proc[p].outcome = "false"

\* C9: isTrusted never raises; on every IO or parse failure on its path
\* (record missing, unreadable or not JSON, trust-store directory missing or
\* not creatable, home directory variable unset) it returns false.
C9_IsTrustedNeverRaises ==
    \A p \in Procs :
        (proc[p].op = "isTrusted" /\ proc[p].pc = "done") =>
            proc[p].outcome \in {"true", "false"}

\* C10: when one addTrusted(idNew, name) runs beside one isTrusted(id, name),
\* the reader's answer is its answer against the old record or against the
\* new record: it never reads an empty or partly written file.
C10_ReaderSeesOldOrNew ==
    \A r \in Procs : \A w \in Procs \ {r} :
        (/\ IsTrustedAnswered(r)
         /\ proc[r].prev.op = "idle"
         /\ proc[w].op = "addTrusted"
         /\ proc[w].prev.op = "idle"
         /\ proc[w].packageName = proc[r].packageName)
        => LET old == TrustAnswer(initialFiles[proc[r].packageName], proc[r].identity)
               new == TrustAnswer(JSONStringify(proc[w].identity), proc[r].identity)
           IN  (proc[r].outcome = "true") \in {old, new}

\* The calls made so far, current and previous, of every process.
CallsMade == {Done(proc[p]) : p \in Procs} \cup {proc[p].prev : p \in Procs}

AddsFor(name) ==
    {c \in CallsMade : c.op = "addTrusted" /\ c.packageName = name}

AllDone == \A p \in Procs : proc[p].pc = "done"

OnlyAdds == \A c \in CallsMade : c.op \in {"idle", "addTrusted"}

\* C11: for any interleaving of addTrusted calls of different processes, the
\* trust-store directory missing at first included, every call completes
\* without error, and afterwards the record of each package name is the
\* identity written by one of the calls for that name, the records of the
\* other names being what they were.
C11_ConcurrentAddsSafe ==
    (home # undefined /\ trustDir # "blocked" /\ OnlyAdds) =>
        /\ \A p \in Procs :
              (proc[p].op = "addTrusted" /\ proc[p].pc = "done")
                  => proc[p].outcome = "returned"
        /\ AllDone =>
              \A name \in Names :
                  IF AddsFor(name) = {}
                  THEN trustFiles[name] = initialFiles[name]
                  ELSE trustFiles[name] \in
                          {JSONStringify(c.identity) : c \in AddsFor(name)}

\* Process p is the only one that has called the trust store.
Alone(p) == \A q \in Procs \ {p} : proc[q].op = "idle"

-----------------------------------------------------------------------------
(* Claims about parsing, errors and dispatch in verify (Spec)              *)

\* C12: a signature document that holds an entry with an unknown type tag is
\* rejected by verify with a Compromised verdict; it is neither accepted
\* with that entry skipped nor reported as Unsigned.
C12_UnknownTagCompromised ==
    (Returned /\ ParserThrows(Entries)) => result.status = "Compromised"

\* The identity of the first identity entry in document order.
IdentityEntryIndices == {i \in DOMAIN Entries : Entries[i].entry = IdentityTag}

FirstIdentityEntry ==
    IF IdentityEntryIndices = {} THEN NoIdentity
    ELSE Entries[CHOOSE i \in IdentityEntryIndices :
                    \A j \in IdentityEntryIndices : i <= j].identity

Performed(name) == \E j \in DOMAIN log : log[j].step = name

\* C14: the signing identity is that of the first entry in document order
\* whose getIdentity is non-null; when no entry yields one the verdict is
\* Compromised('No identity information in signature.json'); an identity
\* with keybaseUser populated is verified by the Keybase verifier only, one
\* with only pgpPublicKeyUrl by the PGP-URL verifier only, and one with
\* neither field populated yields Compromised('Unknown identity in
\* signature.json') with no verifier called.
C14_IdentityAndDispatch ==
    /\ Performed("identity") =>
          /\ identity = FirstIdentityEntry
          /\ identity = NoIdentity =>
                /\ result = Compromised(<<"No identity information in signature.json">>,
                                        expectedPackageName)
                /\ verifierCall = NoVerifierCall
    /\ (/\ Performed("selectVerifier")
        /\ identity.keybaseUser = undefined
        /\ identity.pgpPublicKeyUrl = undefined) =>
                /\ result = Compromised(<<"Unknown identity in signature.json">>,
                                        expectedPackageName)
                /\ verifierCall = NoVerifierCall
    /\ verifierCall # NoVerifierCall =>
          /\ verifierCall.identity = FirstIdentityEntry
          /\ verifierCall.verifier =
                (IF FirstIdentityEntry.keybaseUser # undefined THEN "Keybase" ELSE "Pgp")
          /\ FirstIdentityEntry.keybaseUser # undefined
                \/ FirstIdentityEntry.pgpPublicKeyUrl # undefined

\* The document names a key URL before a Keybase user, and an identity with
\* both fields: the PGP-URL verifier, respectively the Keybase verifier, was
\* called.
C14_Witness ==
    /\ Returned
    /\ \/ /\ Entries = <<IdentityEntry(KeyUrl), IdentityEntry(Alice)>>
          /\ verifierCall.verifier = "Pgp"
          /\ verifierCall.identity = KeyUrl
       \/ /\ Entries = <<IdentityEntry(AliceUrl), IdentityEntry(KeyUrl)>>
          /\ verifierCall.verifier = "Keybase"
          /\ verifierCall.identity = AliceUrl

-----------------------------------------------------------------------------
(* Claims about the files entry on its own (SpecFiles)                     *)

\* C13: an internal error during an entry content check collapses into a
\* verdict: when reading or hashing a package content file fails with an IO
\* error (a path of relFilesOnDisk that cannot be opened), the check fails
\* with Compromised, it does not raise.
C13_IOErrorCompromised ==
    (fResult # Pending /\ fContext.signatureEntries.defined) =>
        fResult.status \in {"null", "Compromised"}

\* Where the serialization of the k-th pair starts in the string: after the
\* paths, the hashes and the two line feeds of the pairs before it.
RECURSIVE PairOffset(_)
PairOffset(k) ==
    IF k = 1 THEN 0
    ELSE PairOffset(k - 1) + Len(fFiles[k - 1].path) + 3

\* The orders the pairs of the entry can be stored in.
Reorderings ==
    {[i \in DOMAIN fFiles |-> fFiles[q[i]]] :
        q \in {f \in [DOMAIN fFiles -> DOMAIN fFiles] :
                  \A i, j \in DOMAIN fFiles : f[i] = f[j] => i = j}}

\* C18: the files entry's part of the canonical message is, for each pair in
\* the stored (unsorted) order, the path, a line feed, the sha512 and a line
\* feed, and nothing else; it is a function of the parsed entry, and storing
\* the pairs in another order changes it.
C18_FilesSerialization ==
    fString # NotComputed =>
        /\ Len(fString) = PairOffset(Len(fFiles) + 1)
        /\ \A k \in DOMAIN fFiles :
              LET at == PairOffset(k)
                  n  == Len(fFiles[k].path)
              IN  /\ SubSeq(fString, at + 1, at + n) = fFiles[k].path
                  /\ fString[at + n + 1] = "\n"
                  /\ fString[at + n + 2] = fFiles[k].sha512
                  /\ fString[at + n + 3] = "\n"
        /\ \A other \in Reorderings :
              other # fFiles => FilesToDeterministicString(other) # fString

\* C19: checking leaves no persistent state: every step that creates or
\* changes anything of the trust store on disk (its directory or a record
\* file) is a step of an addTrusted call, never of an isTrusted call.
C19_OnlyAddTrustedWrites ==
    [][<<trustDir, trustFiles>>' # <<trustDir, trustFiles>> =>
          \E p \in Procs : /\ proc'[p] # proc[p]
                            /\ proc[p].op = "addTrusted"]_vars

\* Where the file a listed path names lies in the directory: a name the
\* directory holds as it is listed is that file; a path listed with the
\* host's backslash separators names the file at the normalised path.
OwnLocation(p) ==
    IF p \in DOMAIN fDisk /\ fDisk[p] # NoFile THEN p ELSE NormalisePath(p)

\* The listed paths whose file verify has to compare with the signed pairs.
ComparedListed ==
    {k \in DOMAIN fContext.relFilesOnDisk :
        /\ ~SkippedOnDisk(NormalisePath(fContext.relFilesOnDisk[k]), fContext)
        /\ OwnLocation(fContext.relFilesOnDisk[k]) \in DOMAIN fDisk}

\* C20: the result for a listing is the result for the same listing with
\* forward slashes, and when the entry accepts the package every listed file
\* was hashed at its own location (its content is the one signed for its
\* normalised path) and no two different files were taken for one path.
C20_PathNormalisation ==
    fResult # Pending =>
        LET rel == fContext.relFilesOnDisk
            forward == [k \in DOMAIN rel |-> NormalisePath(rel[k])]
        IN  /\ (\A k \in DOMAIN rel : OwnLocation(rel[k]) = NormalisePath(rel[k]))
                  => fResult = FilesEntryVerify(
                                  fFiles, [fContext EXCEPT !.relFilesOnDisk = forward], fDisk)
            /\ fResult = NoFailure =>
                  /\ \A k \in ComparedListed :
                        Sha512OfFile(fDisk, OwnLocation(rel[k]))
                            = ExpectedHash(fFiles, NormalisePath(rel[k]))
                  /\ \A j, k \in ComparedListed :
                        OwnLocation(rel[j]) # OwnLocation(rel[k])
                            => NormalisePath(rel[j]) # NormalisePath(rel[k])

\* C23: the serialization is injective on file lists: no files entry with
\* another ordered list of (path, sha512) pairs has the string of this one.
C23_SerializationInjective ==
    fString # NotComputed =>
        \A other \in SeqsUpTo(FFilePairs, MaxFiles) :
            other # fFiles => FilesToDeterministicString(other) # fString

-----------------------------------------------------------------------------
(* Claims about the manifest name and the acquisition of trust             *)
(* (SpecSession)                                                           *)

\* The verifier has accepted the signature in the current call.
Accepted == Performed("verifySignature") /\ verifierCall.accepted

\* The manifest is a JSON object whose name field is the string expected.
NameFieldIs(content, expected) ==
    /\ ManifestParses(content)
    /\ ~ManifestIsNull(content)
    /\ ManifestName(content) = expected

\* C15: after a successful signature verification, verify returns
\* Compromised('Missing or unparsable package.json') when package.json
\* cannot be read or parsed, and Compromised('Provided package name in
\* package.json did not match expected package name') whenever the name
\* field of the manifest differs from the expected name: for a manifest
\* without a name field, with a name that is not a string, or that is not
\* an object, and for the empty expected name too.
C15_ManifestNameChecked ==
    (Returned /\ Accepted) =>
        IF disk[PathPackage] = NoFile \/ ~ManifestParses(disk[PathPackage])
        THEN result = Compromised(<<"Missing or unparsable package.json">>,
                                  expectedPackageName)
        ELSE ~NameFieldIs(disk[PathPackage], expectedPackageName) =>
                result = Compromised(
                  <<"Provided package name in package.json did not match expected package name">>,
                  expectedPackageName)

\* The earlier verify calls of the session that returned Untrusted.
UntrustedBefore ==
    {v \in DOMAIN calls : /\ calls[v].op = "verify"
                          /\ calls[v].outcome.status = "Untrusted"}

\* The addTrusted calls for the expected name made after call v.
AddsAfter(v) ==
    {k \in DOMAIN calls : /\ k > v
                          /\ calls[k].op = "addTrusted"
                          /\ calls[k].packageName = expectedPackageName}

LastAddAfter(v) == calls[CHOOSE k \in AddsAfter(v) : \A j \in AddsAfter(v) : j <= k]

\* C16: when verify(dir, files, name) returned Untrusted(id), then after
\* addTrusted(id, name), the package directory unchanged and the verifier
\* accepting the signature as before, the next verify(dir, files, name)
\* returns Trusted; with no addTrusted for that name in between it returns
\* Untrusted(id) again.
C16_TrustAcquired ==
    (Returned /\ Accepted) =>
        \A v \in UntrustedBefore :
            LET id == calls[v].outcome.untrustedIdentity
            IN  /\ AddsAfter(v) = {} => result = Untrusted(id, expectedPackageName)
                /\ (AddsAfter(v) # {} /\ LastAddAfter(v).identity = id)
                      => result = Trusted(expectedPackageName)

-----------------------------------------------------------------------------
(* Claims about json-normalize (SpecNormalize)                             *)

\* The values with the keys and values of value, the keys of the objects
\* inserted in any order at every level, the elements of arrays in place.
RECURSIVE Rearranged(_)
Rearranged(value) ==
    LET items   == value.items
        inner   == UNION {{Item(items[i].key, r) : r \in Rearranged(items[i].value)} :
                            i \in DOMAIN items}
        choices == {f \in [DOMAIN items -> inner] :
                      \A i \in DOMAIN items :
                          /\ f[i].key = items[i].key
                          /\ f[i].value \in Rearranged(items[i].value)}
        orders  == IF value.kind = "object"
                   THEN {q \in [DOMAIN items -> DOMAIN items] :
                           \A i, j \in DOMAIN items : q[i] = q[j] => i = j}
                   ELSE {[i \in DOMAIN items |-> i]}
    IN  IF items = <<>> THEN {value}
        ELSE {Node(value.kind, value.lit, [i \in DOMAIN items |-> f[q[i]]]) :
                 f \in choices, q \in orders}

\* C21: normalizeSync returns one string for all values that differ only in
\* the insertion order of object keys, at any level; normalize calls its
\* completion callback at most once, and once its deferred work is done it
\* has called it exactly once, with the string normalizeSync returns.
C21_NormalizeOrderIndependent ==
    /\ nSync # NotComputed =>
          \A other \in Rearranged(nInput) : NormalizeSync(other) = nSync
    /\ Len(nDelivered) <= 1
    /\ (nStarted /\ nQueue = <<>>) => nDelivered = <<NormalizeSync(nInput)>>

\* {"b": {"b": 1, "ab": null}} normalized both ways: the inner keys come out
\* sorted.
C21_Witness ==
    /\ nInput = ObjectValue(<<Item(<<"b">>,
                   ObjectValue(<<Item(<<"b">>, NumberValue("1")),
                                 Item(<<"a", "b">>, NullValue)>>))>>)
    /\ nSync = <<"{", "\"", "b", "\"", ":", "{",
                 "\"", "a", "b", "\"", ":", "n", "u", "l", "l", ",",
                 "\"", "b", "\"", ":", "1", "}", "}">>
    /\ nDelivered = <<nSync>>

-----------------------------------------------------------------------------
(* Claims about the verify command (SpecCommand)                           *)

\* The packages of results that the summary counts against the directory.
NotTrustedIn(results) ==
    {i \in DOMAIN results :
        results[i].result.status \in {"Compromised", "Unsigned", "Untrusted"}}

\* The prompts the operator accepted.
AcceptedPrompts ==
    {cTrustResults[j].name : j \in {k \in DOMAIN cTrustResults : cTrustResults[k].value}}

\* C22: execute returns an exit code only after the summary, 0 when no
\* package of the summarised results is Compromised, Unsigned or Untrusted
\* and 1 otherwise; every addTrusted call is for a package that the first
\* hierarchy verification found Untrusted and whose prompt the operator
\* accepted, with the identity of that result; and the results are computed
\* a second time (from the trust store as the calls left it) exactly when an
\* addTrusted call was made.
C22_CommandProtocol ==
    /\ cExit # NoExitCode <=> cPc = "exited"
    /\ cPc = "exited" =>
          /\ cExit = (IF NotTrustedIn(cResults) = {} THEN 0 ELSE 1)
          /\ cVerifications = (IF cAdds # <<>> THEN 2 ELSE 1)
          /\ cResults = HierarchyVerify(cPackages, trustFiles)
    /\ cVerifications = 2 => cAdds # <<>>
    /\ \A k \in DOMAIN cAdds :
          /\ cAdds[k].path \in AcceptedPrompts
          /\ \E i \in DOMAIN cFirst :
                /\ cFirst[i].path = cAdds[k].path
                /\ cFirst[i].result.status = "Untrusted"
                /\ cFirst[i].result.untrustedIdentity = cAdds[k].identity

\* Two packages named p, signed by Alice and by Bob, neither trusted: one
\* prompt, accepted; after the second verification the nested one is still
\* untrusted and the exit code is 1.
C22_Witness ==
    /\ cPackages = <<Package(FolderP, "Signed", Alice),
                     Package(FolderPNested, "Signed", Bob)>>
    /\ cPrompts = <<FolderP>>
    /\ cAdds = <<[path |-> FolderP, identity |-> Alice, packageName |-> "p"]>>
    /\ cVerifications = 2
    /\ cResults = <<PathResult(FolderP, Trusted("p")),
                    PathResult(FolderPNested, Untrusted(Bob, "p"))>>
    /\ cPc = "exited"
    /\ cExit = 1

====
